---------------------------- MODULE Spec2Model ----------------------------
(***************************************************************************)
(* The virtual try-on / background changer application (App.tsx,           *)
(* geminiService.ts, fileUtils): the two undo/redo histories kept by       *)
(* useHistoryState, their persistence in localStorage, the generate /      *)
(* undo / redo / mode handlers of App and the Gemini client wrappers.      *)
(*                                                                         *)
(* JavaScript values are modelled as follows.                              *)
(*   - a string is a sequence of tokens (each token a TLA+ string that     *)
(*     stands for a run of characters; in a string that is indexed or      *)
(*     measured, each token stands for one character);                     *)
(*   - the value held in the `history` state is a record [t, items]:       *)
(*     t = "array" (items = the elements), "string" (items = its           *)
(*     characters), "number" or "null" (items = << >>);                    *)
(*   - a number is an integer, or NaN; `undefined` only occurs as the      *)
(*     length of a number and is NaN in every arithmetic use made of it;   *)
(*   - localStorage holds texts (sequences of tokens) or nothing (Absent). *)
(***************************************************************************)
EXTENDS Integers, Sequences, FiniteSets, TLC

\* ------------------------------------------------------------ bounds

\* Most images the two histories hold together: the remote call answers with
\* an image only while the histories stay within it.
MaxStored == 2

\* Most generate calls awaiting the client when the handlers are called
\* directly (the rendered controls allow one).
MaxPending == 1

\* ------------------------------------------------------------ JS values

\* Number.NaN (integers of the model are small; this one is never an index).
NaN == -999

IsNaN(n) == n = NaN

\* a < b, a >= b, a > b, a === b on numbers: every comparison with NaN is false.
JSLess(a, b) == ~IsNaN(a) /\ ~IsNaN(b) /\ a < b

JSGreaterEq(a, b) == ~IsNaN(a) /\ ~IsNaN(b) /\ a >= b

JSGreater(a, b) == ~IsNaN(a) /\ ~IsNaN(b) /\ a > b

JSStrictEq(a, b) == ~IsNaN(a) /\ ~IsNaN(b) /\ a = b

\* a + b, a - b on numbers.
JSPlus(a, b) == IF IsNaN(a) \/ IsNaN(b) THEN NaN ELSE a + b

JSMinus(a, b) == IF IsNaN(a) \/ IsNaN(b) THEN NaN ELSE a - b

Arr(items) == [t |-> "array", items |-> items]

Str(items) == [t |-> "string", items |-> items]

Num == [t |-> "number", items |-> << >>]

Null == [t |-> "null", items |-> << >>]

\* The result of an expression that may throw.
Ok(v) == [ok |-> TRUE, val |-> v]

Throws == [ok |-> FALSE, val |-> Null]

\* localStorage.getItem of a key never written: null.
Absent == <<"(absent)">>

\* `x ? ... : ...` on what getItem returned: null and "" are falsy.
Truthy(text) == text # Absent /\ text # << >>

\* value.length: throws on null, undefined (NaN) on a number.
Length(v) ==
  CASE v.t = "null" -> [ok |-> FALSE, val |-> 0]
    [] v.t = "number" -> [ok |-> TRUE, val |-> NaN]
    [] OTHER -> [ok |-> TRUE, val |-> Len(v.items)]

\* `resultImage` when there is nothing to show: null.
NoImage == <<"(null)">>

\* value[i] ?? null: throws on null; undefined (so null) outside 0..length-1,
\* for NaN and on a number.
ItemAt(v, i) ==
  CASE v.t = "null" -> [ok |-> FALSE, val |-> NoImage]
    [] v.t = "number" -> [ok |-> TRUE, val |-> NoImage]
    [] OTHER ->
        IF ~IsNaN(i) /\ 0 <= i /\ i < Len(v.items)
          THEN [ok |-> TRUE, val |-> v.items[i + 1]]
          ELSE [ok |-> TRUE, val |-> NoImage]

\* ------------------------------------------------------------ JSON

Quote == "\""

\* The one number literal of the model's texts.
NumberLiteral == "5"

RECURSIVE JoinQuoted(_)
\* "a","b",... : each element quoted, separated by commas.
JoinQuoted(items) ==
  IF items = << >> THEN << >>
  ELSE <<Quote>> \o Head(items) \o <<Quote>>
       \o (IF Len(items) = 1 THEN << >> ELSE <<",">> \o JoinQuoted(Tail(items)))

RECURSIVE Flatten(_)
Flatten(items) ==
  IF items = << >> THEN << >> ELSE Head(items) \o Flatten(Tail(items))

\* JSON.stringify(value).
JSONstringify(v) ==
  CASE v.t = "array" -> <<"[">> \o JoinQuoted(v.items) \o <<"]">>
    [] v.t = "string" -> <<Quote>> \o Flatten(v.items) \o <<Quote>>
    [] v.t = "number" -> <<NumberLiteral>>
    [] OTHER -> <<"null">>

RECURSIVE QuoteEnd(_, _)
\* Index of the first quote of text at or after i, 0 when there is none.
QuoteEnd(text, i) ==
  IF i > Len(text) THEN 0
  ELSE IF text[i] = Quote THEN i ELSE QuoteEnd(text, i + 1)

RECURSIVE Chars(_)
Chars(tokens) ==
  IF tokens = << >> THEN << >> ELSE << <<Head(tokens)>> >> \o Chars(Tail(tokens))

RECURSIVE ParseElements(_, _, _)
\* The elements of an array text from position i on (strings only), up to
\* the closing bracket, which must end the text.
ParseElements(text, i, acc) ==
  IF i > Len(text) \/ text[i] # Quote THEN Throws
  ELSE LET j == QuoteEnd(text, i + 1) IN
       IF j = 0 \/ j = Len(text) THEN Throws
       ELSE LET el == SubSeq(text, i + 1, j - 1) IN
            IF text[j + 1] = "]" /\ j + 1 = Len(text) THEN Ok(Arr(Append(acc, el)))
            ELSE IF text[j + 1] = "," THEN ParseElements(text, j + 2, Append(acc, el))
            ELSE Throws

\* JSON.parse(text) on the texts of the model: null, a number, a string, an
\* array of strings; everything else is a SyntaxError.
JSONparse(text) ==
  IF text = << >> THEN Throws
  ELSE IF text = <<"null">> THEN Ok(Null)
  ELSE IF text = <<NumberLiteral>> THEN Ok(Num)
  ELSE IF text[1] = Quote THEN
         IF Len(text) >= 2 /\ QuoteEnd(text, 2) = Len(text)
           THEN Ok(Str(Chars(SubSeq(text, 2, Len(text) - 1))))
           ELSE Throws
  ELSE IF text = <<"[", "]">> THEN Ok(Arr(<< >>))
  ELSE IF text[1] = "[" THEN ParseElements(text, 2, << >>)
  ELSE Throws

\* ------------------------------------------------------------ String / parseInt

Digits == <<"0", "1", "2", "3", "4", "5", "6", "7", "8", "9">>

IsDigit(c) == \E d \in 1..10 : Digits[d] = c

DigitValue(c) == (CHOOSE d \in 1..10 : Digits[d] = c) - 1

RECURSIVE Decimal(_)
Decimal(n) ==
  IF n < 10 THEN <<Digits[n + 1]>> ELSE Decimal(n \div 10) \o <<Digits[(n % 10) + 1]>>

\* String(n) of a number.
NumberToString(n) ==
  IF IsNaN(n) THEN <<"N", "a", "N">>
  ELSE IF n < 0 THEN <<"-">> \o Decimal(-n) ELSE Decimal(n)

RECURSIVE SkipSpaces(_)
SkipSpaces(text) ==
  IF text # << >> /\ Head(text) = " " THEN SkipSpaces(Tail(text)) ELSE text

RECURSIVE DigitRun(_, _, _)
\* The value of the leading digits of text; NaN when it starts with none.
DigitRun(text, seen, acc) ==
  IF text # << >> /\ IsDigit(Head(text))
    THEN DigitRun(Tail(text), TRUE, acc * 10 + DigitValue(Head(text)))
    ELSE IF seen THEN acc ELSE NaN

\* parseInt(text, 10): leading white space, a sign, then the leading digits.
ParseInt(text) ==
  LET t == SkipSpaces(text)
      neg == t # << >> /\ Head(t) = "-"
      body == IF t # << >> /\ Head(t) \in {"-", "+"} THEN Tail(t) ELSE t
      n == DigitRun(body, FALSE, 0)
  IN IF IsNaN(n) THEN NaN ELSE IF neg THEN -n ELSE n

\* ------------------------------------------------------------ the application

\* type AppMode; one workflow (one history) per mode.
Workflows == {"tryon", "background"}

\* TRYON_HISTORY_KEY, BG_HISTORY_KEY.
HistoryKey(w) ==
  IF w = "tryon" THEN "virtual-tryon-history" ELSE "background-changer-history"

\* TRYON_HISTORY_INDEX_KEY, BG_HISTORY_INDEX_KEY.
IndexKey(w) ==
  IF w = "tryon" THEN "virtual-tryon-history-index"
  ELSE "background-changer-history-index"

Keys == {HistoryKey(w) : w \in Workflows} \cup {IndexKey(w) : w \in Workflows}

\* The four upload slots: modelImage, clothingImage, sourceImage, backgroundImage.
Slots == {"model", "clothing", "source", "background"}

\* A slot holds a Base64File or null.
NoFile == "(null)"

Files == {"file"}

\* The slots whose ImageUploader the mode renders.
SlotsOf(m) == IF m = "tryon" THEN {"model", "clothing"} ELSE {"source", "background"}

\* The `filters` table: 'none' and one of the five other styles.
Filters == {"none", "grayscale(1) contrast(1.2)"}

\* type FitAdjustment.
Fits == {"default", "tighter", "looser"}

\* The prompt texts: empty, white space only, and with something in it.
PromptValues == {<< >>, <<" ">>, <<"a">>, <<" ", "a">>}

\* What the user types into a prompt field while the application runs.
TypedPrompts == {<< >>, <<"a">>}

RECURSIVE TrimLeft(_)
TrimLeft(s) == IF s # << >> /\ Head(s) = " " THEN TrimLeft(Tail(s)) ELSE s

RECURSIVE TrimRight(_)
TrimRight(s) ==
  IF s # << >> /\ s[Len(s)] = " " THEN TrimRight(SubSeq(s, 1, Len(s) - 1)) ELSE s

\* s.trim().
Trim(s) == TrimRight(TrimLeft(s))

\* The image data the remote model may return: one more than the histories
\* hold, so that there is always one no history holds yet.
ImageNames == <<"g1", "g2", "g3", "g4", "g5", "g6">>

GeneratedImages == {<<ImageNames[k]>> : k \in 1 .. MaxStored + 1}

\* `data:image/png;base64,${generatedImage}`.
DataUrl(generatedImage) == <<"data:image/png;base64,">> \o generatedImage

\* The state setters' null for an error message.
NoError == "(null)"

TryOnValidationMessage == "Please upload both a model image and a clothing image."

SourceValidationMessage == "Please upload a source image."

BackgroundValidationMessage ==
  "Please either upload a new background image or describe the background you want."

UnknownErrorMessage == "An unknown error occurred."

\* The TypeError of calling slice or push on a value that has none.
NotAFunctionMessage == "slice/push is not a function"

VARIABLES
  mode,           \* the selected AppMode
  image,          \* slot -> the uploaded Base64File, or NoFile
  prompt,         \* workflow -> tryOnBackgroundPrompt / bgChangePrompt
  isLoading,      \* workflow -> isTryOnLoading / isBgChangeLoading
  error,          \* workflow -> tryOnError / bgChangeError
  history,        \* workflow -> the `history` state of useHistoryState
  historyIndex,   \* workflow -> the `historyIndex` state of useHistoryState
  activeFilter,   \* the shared activeFilter
  storage,        \* localStorage: key -> text, or Absent
  pending,        \* the generate calls awaiting the client, with what their closure holds
  crashed,        \* a render threw: React has unmounted the application
  converting,     \* the uploads awaiting fileToBase64, in the order they were chosen
  last            \* the step that led here (for stating the claims)

vars ==
  <<mode, image, prompt, isLoading, error, history, historyIndex, activeFilter,
    storage, pending, crashed, converting, last>>

NoStorage == [k \in Keys |-> Absent]

NoPre == [history |-> Null, historyIndex |-> NaN, resultImage |-> NoImage]

\* Nothing recorded of a client call.
NoCall == [outcome |-> "(none)", parts |-> << >>, ok |-> FALSE, data |-> << >>, message |-> ""]

\* The record of a step: the operation, its workflow, the storage a start
\* found, what a successful generate, an undo or a redo found before it ran,
\* for a redo that directly follows an undo of the same workflow, what
\* that undo had found, and, for a call of the client, what it sent and how
\* it ended, and, for a step of an upload, its slot.
Step(op, w) ==
  [op |-> op, w |-> w, found |-> NoStorage, pre |-> NoPre, undone |-> NoPre,
   call |-> NoCall, slot |-> "(none)"]

\* ------------------------------------------------------------ useHistoryState

\* The initialiser of `history`.
InitialHistory(st, w) ==
  LET savedHistory == st[HistoryKey(w)] IN
  IF Truthy(savedHistory)
    THEN LET parsed == JSONparse(savedHistory) IN
         IF parsed.ok THEN parsed.val ELSE Arr(<< >>)
    ELSE Arr(<< >>)

\* The initialiser of `historyIndex` never reading the index key: the
\* cursor starts on the last entry.
InitialHistoryIndexLast(st, w) ==
  LET savedHistoryRaw == st[HistoryKey(w)]
      parsed == JSONparse(savedHistoryRaw)
      length == IF Truthy(savedHistoryRaw) THEN Length(parsed.val) ELSE Ok(0)
  IN IF Truthy(savedHistoryRaw) /\ ~parsed.ok THEN -1
     ELSE IF ~length.ok THEN -1
     ELSE IF JSStrictEq(length.val, 0) THEN -1
     ELSE JSMinus(length.val, 1)

\* The initialiser of `historyIndex` with `savedIndex > 0` where the code has
\* `savedIndex >= 0`.
InitialHistoryIndexAboveZero(st, w) ==
  LET savedHistoryRaw == st[HistoryKey(w)]
      parsed == JSONparse(savedHistoryRaw)
      length == IF Truthy(savedHistoryRaw) THEN Length(parsed.val) ELSE Ok(0)
      savedIndexRaw == st[IndexKey(w)]
      savedIndex == IF Truthy(savedIndexRaw) THEN ParseInt(savedIndexRaw) ELSE -1
  IN IF Truthy(savedHistoryRaw) /\ ~parsed.ok THEN -1
     ELSE IF ~length.ok THEN -1
     ELSE IF JSStrictEq(length.val, 0) THEN -1
     ELSE IF JSGreater(savedIndex, 0) /\ JSLess(savedIndex, length.val)
       THEN savedIndex
     ELSE JSMinus(length.val, 1)

\* The initialiser of `historyIndex`.
InitialHistoryIndex(st, w) ==
  LET savedHistoryRaw == st[HistoryKey(w)]
      parsed == JSONparse(savedHistoryRaw)
      length == IF Truthy(savedHistoryRaw) THEN Length(parsed.val) ELSE Ok(0)
      savedIndexRaw == st[IndexKey(w)]
      savedIndex == IF Truthy(savedIndexRaw) THEN ParseInt(savedIndexRaw) ELSE -1
  IN IF Truthy(savedHistoryRaw) /\ ~parsed.ok THEN -1
     ELSE IF ~length.ok THEN -1
     ELSE IF JSStrictEq(length.val, 0) THEN -1
     ELSE IF JSGreaterEq(savedIndex, 0) /\ JSLess(savedIndex, length.val)
       THEN savedIndex
     ELSE JSMinus(length.val, 1)

\* The two effects: both keys of every workflow hold the serialised state.
Persisted(h, i) ==
  [k \in Keys |->
     LET w == CHOOSE x \in Workflows : k \in {HistoryKey(x), IndexKey(x)} IN
     IF k = HistoryKey(w) THEN JSONstringify(h[w]) ELSE NumberToString(i[w])]

\* const resultImage = ... ?? null, of the selected mode.
ResultImageOf(m, h, i) == ItemAt(h[m], i[m])

resultImage == ResultImageOf(mode, history, historyIndex).val

\* The render of App throws (and React unmounts it) when resultImage cannot
\* be computed.
RenderThrows(m, h, i) == ~ResultImageOf(m, h, i).ok

\* ------------------------------------------------------------ geminiService

\* What ai.models.generateContent does: it rejects, or it answers without an
\* inline-data part, or with one.
RemoteOutcomes ==
  {[kind |-> "error", data |-> << >>], [kind |-> "noimage", data |-> << >>]}
    \cup {[kind |-> "image", data |-> g] : g \in GeneratedImages}

Resolved(data) == [ok |-> TRUE, data |-> data, message |-> ""]

Rejected(message) == [ok |-> FALSE, data |-> << >>, message |-> message]

RemoteErrorMessage == "(the SDK's error)"

TryOnNoImageMessage ==
  "AI failed to generate an image. Please try again with different images."

TryOnFailedMessage ==
  "Failed to generate image from AI. The model may have refused to process the request. Check your images and try again."

BackgroundNoImageMessage ==
  "AI failed to generate an image. Please try again with a different image or prompt."

BackgroundFailedMessage ==
  "Failed to change background from AI. The model may have refused to process the request. Check your image and try again."

InvalidRequestMessage == "A background description or a background image is required."

\* The body of the try block after the request was built: await the remote
\* call, then return the first inline-data part or throw.
ExtractImage(outcome, noImageMessage) ==
  CASE outcome.kind = "image" -> Resolved(outcome.data)
    [] outcome.kind = "noimage" -> Rejected(noImageMessage)
    [] OTHER -> Rejected(RemoteErrorMessage)

\* dressModel: whatever the try block throws is caught and thrown again as
\* the one failure message.
dressModel(outcome) ==
  LET body == ExtractImage(outcome, TryOnNoImageMessage) IN
  IF body.ok THEN body ELSE Rejected(TryOnFailedMessage)

\* The check with the prompt alone: a blank prompt is refused also when a
\* background image is given.
InvalidRequestBlankPrompt(backgroundPrompt, backgroundImage) ==
  backgroundPrompt = << >> \/ Len(Trim(backgroundPrompt)) = 0

\* The check changeBackground makes before its try block.
InvalidRequest(backgroundPrompt, backgroundImage) ==
  (backgroundPrompt = << >> \/ Len(Trim(backgroundPrompt)) = 0)
    /\ backgroundImage = NoFile

\* changeBackground with its argument check inside the try block: the
\* invalid-request error is caught and thrown again as the failure message.
changeBackgroundCheckInTry(backgroundPrompt, backgroundImage, outcome) ==
  IF InvalidRequest(backgroundPrompt, backgroundImage)
    THEN Rejected(BackgroundFailedMessage)
    ELSE LET body == ExtractImage(outcome, BackgroundNoImageMessage) IN
         IF body.ok THEN body ELSE Rejected(BackgroundFailedMessage)

\* changeBackground.
changeBackground(backgroundPrompt, backgroundImage, outcome) ==
  IF InvalidRequest(backgroundPrompt, backgroundImage)
    THEN Rejected(InvalidRequestMessage)
    ELSE LET body == ExtractImage(outcome, BackgroundNoImageMessage) IN
         IF body.ok THEN body ELSE Rejected(BackgroundFailedMessage)

\* A part of the request: inline image data, or the instruction text. Of the
\* text, the model keeps which template it is, the fit it asks for, and the
\* user's text it embeds (if it embeds any).
ImagePart(file) ==
  [kind |-> "inlineData", file |-> file, variant |-> "(none)", fit |-> "(none)",
   embeds |-> FALSE, userText |-> << >>]

TextPart(variant, fit, embeds, userText) ==
  [kind |-> "text", file |-> NoFile, variant |-> variant, fit |-> fit,
   embeds |-> embeds, userText |-> userText]

\* The prompt of dressModel: the fit instruction, and the background
\* instruction, which embeds the background prompt when it is not blank and
\* asks to preserve the original background otherwise.
DressModelPrompt(fit, backgroundPrompt) ==
  IF Truthy(backgroundPrompt) /\ Len(Trim(backgroundPrompt)) > 0
    THEN TextPart("dress", fit, TRUE, backgroundPrompt)
    ELSE TextPart("dress", fit, FALSE, << >>)

\* The parts of dressModel with the clothing image before the model image.
DressModelPartsClothingFirst(modelImage, clothingImage, fit, backgroundPrompt) ==
  <<ImagePart(clothingImage), ImagePart(modelImage), DressModelPrompt(fit, backgroundPrompt)>>

\* The parts dressModel sends.
DressModelParts(modelImage, clothingImage, fit, backgroundPrompt) ==
  <<ImagePart(modelImage), ImagePart(clothingImage), DressModelPrompt(fit, backgroundPrompt)>>

\* The prompt of changeBackground: with a background image the second-image
\* template, which embeds the prompt as additional instructions when it is
\* truthy; without one the template that generates from the description.
ChangeBackgroundPrompt(backgroundPrompt, backgroundImage) ==
  IF backgroundImage # NoFile
    THEN IF Truthy(backgroundPrompt)
           THEN TextPart("second-image", "(none)", TRUE, backgroundPrompt)
           ELSE TextPart("second-image", "(none)", FALSE, << >>)
    ELSE TextPart("description", "(none)", TRUE, backgroundPrompt)

\* The parts changeBackground sends (none when it throws before its try block).
ChangeBackgroundParts(sourceImage, backgroundPrompt, backgroundImage) ==
  IF InvalidRequest(backgroundPrompt, backgroundImage) THEN << >>
  ELSE IF backgroundImage # NoFile
    THEN <<ImagePart(sourceImage), ImagePart(backgroundImage),
           ChangeBackgroundPrompt(backgroundPrompt, backgroundImage)>>
    ELSE <<ImagePart(sourceImage), ChangeBackgroundPrompt(backgroundPrompt, backgroundImage)>>

\* ------------------------------------------------------------ App: derived

\* isLoading looking at the selected workflow's flag only.
anyLoadingOfMode == isLoading[mode]

anyLoading == isLoading["tryon"] \/ isLoading["background"]

\* canUndo with `>= 0` where the code has `> 0`.
canUndoAtFirst == JSGreaterEq(historyIndex[mode], 0)

canUndo == JSGreater(historyIndex[mode], 0)

canRedo == JSLess(historyIndex[mode], JSMinus(Length(history[mode]).val, 1))

\* The result section shown whenever there is a result, also while loading.
ResultControlsShownWhileLoading == resultImage # NoImage

\* The result section with the fit, background, filter and download controls.
ResultControlsShown == resultImage # NoImage /\ ~anyLoading

\* value.slice(0, end): an array or a string gives its first `end` items (none
\* for NaN); anything else has no slice.
Slice(v, end) ==
  IF v.t \in {"array", "string"}
    THEN LET n == IF IsNaN(end) \/ end < 0 THEN 0
                  ELSE IF end > Len(v.items) THEN Len(v.items) ELSE end
         IN Ok([t |-> v.t, items |-> SubSeq(v.items, 1, n)])
    ELSE Throws

\* newHistory.push(newImage): only an array has push.
Push(v, item) ==
  IF v.t = "array" THEN Ok(Arr(Append(v.items, item))) ELSE Throws

\* The effects with only the first of the two: the index key is never written.
PersistHistoryOnly(st, w, h, i) ==
  [st EXCEPT ![HistoryKey(w)] = JSONstringify(h)]

\* The writes of the two effects of workflow w after a render in which its
\* history and index are h and i.
Persist(st, w, h, i) ==
  [st EXCEPT ![HistoryKey(w)] = JSONstringify(h), ![IndexKey(w)] = NumberToString(i)]

\* ------------------------------------------------------------ startup

StartHistory(st) == [w \in Workflows |-> InitialHistory(st, w)]

StartIndex(st) == [w \in Workflows |-> InitialHistoryIndex(st, w)]

\* The first render throws: nothing is committed and no effect runs.
StartThrows(st) == RenderThrows("tryon", StartHistory(st), StartIndex(st))

\* The storage after the first render and its effects over the storage st
\* (untouched when that render throws).
StartStorage(st) ==
  IF StartThrows(st) THEN st ELSE Persisted(StartHistory(st), StartIndex(st))

\* The application just mounted over the storage st: every useState
\* initialiser has run, then the first render and the effects.
Mounted(st) ==
  /\ mode = "tryon"
  /\ isLoading = [w \in Workflows |-> FALSE]
  /\ error = [w \in Workflows |-> NoError]
  /\ activeFilter = "none"
  /\ history = StartHistory(st)
  /\ historyIndex = StartIndex(st)
  /\ crashed = StartThrows(st)
  /\ storage = StartStorage(st)
  /\ pending = << >>
  /\ converting = << >>
  /\ last = [Step("start", "tryon") EXCEPT !.found = st]

\* Nothing uploaded, nothing typed.
NoInputs ==
  /\ image = [s \in Slots |-> NoFile]
  /\ prompt = [w \in Workflows |-> << >>]

\* A first visit: nothing stored.
Init == Mounted(NoStorage) /\ NoInputs

\* The page is loaded again: the running application and its pending calls
\* are gone, the storage stays.
Restart ==
  /\ mode' = "tryon"
  /\ image' = [s \in Slots |-> NoFile]
  /\ prompt' = [w \in Workflows |-> << >>]
  /\ isLoading' = [w \in Workflows |-> FALSE]
  /\ error' = [w \in Workflows |-> NoError]
  /\ activeFilter' = "none"
  /\ history' = StartHistory(storage)
  /\ historyIndex' = StartIndex(storage)
  /\ crashed' = StartThrows(storage)
  /\ storage' = StartStorage(storage)
  /\ pending' = << >>
  /\ converting' = << >>
  /\ last' = [Step("start", "tryon") EXCEPT !.found = storage]

\* ------------------------------------------------------------ handlers

\* handleGenerateTryOn(fit) with a validation that looks at the model image only.
handleGenerateTryOnModelOnly(fit) ==
  IF image["model"] = NoFile
    THEN /\ error' = [error EXCEPT !["tryon"] = TryOnValidationMessage]
         /\ last' = Step("reject", "tryon")
         /\ UNCHANGED <<mode, image, prompt, isLoading, history, historyIndex,
                        activeFilter, storage, pending, crashed, converting>>
    ELSE /\ isLoading' = [isLoading EXCEPT !["tryon"] = TRUE]
         /\ error' = [error EXCEPT !["tryon"] = NoError]
         /\ activeFilter' = "none"
         /\ pending' = Append(pending,
              [w |-> "tryon", history |-> history["tryon"],
               historyIndex |-> historyIndex["tryon"],
               backgroundPrompt |-> << >>, backgroundImage |-> NoFile])
         /\ last' = Step("accept", "tryon")
         /\ UNCHANGED <<mode, image, prompt, history, historyIndex, storage, crashed, converting>>

\* handleGenerateTryOn(fit) without setTryOnError(null).
handleGenerateTryOnKeepsError(fit) ==
  IF image["model"] = NoFile \/ image["clothing"] = NoFile
    THEN /\ error' = [error EXCEPT !["tryon"] = TryOnValidationMessage]
         /\ last' = Step("reject", "tryon")
         /\ UNCHANGED <<mode, image, prompt, isLoading, history, historyIndex,
                        activeFilter, storage, pending, crashed, converting>>
    ELSE /\ isLoading' = [isLoading EXCEPT !["tryon"] = TRUE]
         /\ activeFilter' = "none"
         /\ pending' = Append(pending,
              [w |-> "tryon", history |-> history["tryon"],
               historyIndex |-> historyIndex["tryon"],
               backgroundPrompt |-> << >>, backgroundImage |-> NoFile])
         /\ last' = Step("accept", "tryon")
         /\ UNCHANGED <<mode, image, prompt, error, history, historyIndex, storage, crashed, converting>>

\* handleGenerateTryOn(fit) up to its await.
handleGenerateTryOn(fit) ==
  IF image["model"] = NoFile \/ image["clothing"] = NoFile
    THEN /\ error' = [error EXCEPT !["tryon"] = TryOnValidationMessage]
         /\ last' = Step("reject", "tryon")
         /\ UNCHANGED <<mode, image, prompt, isLoading, history, historyIndex,
                        activeFilter, storage, pending, crashed, converting>>
    ELSE /\ isLoading' = [isLoading EXCEPT !["tryon"] = TRUE]
         /\ error' = [error EXCEPT !["tryon"] = NoError]
         /\ activeFilter' = "none"
         /\ pending' = Append(pending,
              [w |-> "tryon", history |-> history["tryon"],
               historyIndex |-> historyIndex["tryon"],
               backgroundPrompt |-> << >>, backgroundImage |-> NoFile])
         /\ last' = Step("accept", "tryon")
         /\ UNCHANGED <<mode, image, prompt, history, historyIndex, storage, crashed, converting>>

\* handleGenerateBgChange with `!bgChangePrompt` where the code has
\* `!bgChangePrompt.trim()`.
handleGenerateBgChangeNoTrim ==
  IF image["source"] = NoFile
    THEN /\ error' = [error EXCEPT !["background"] = SourceValidationMessage]
         /\ last' = Step("reject", "background")
         /\ UNCHANGED <<mode, image, prompt, isLoading, history, historyIndex,
                        activeFilter, storage, pending, crashed, converting>>
  ELSE IF image["background"] = NoFile /\ prompt["background"] = << >>
    THEN /\ error' = [error EXCEPT !["background"] = BackgroundValidationMessage]
         /\ last' = Step("reject", "background")
         /\ UNCHANGED <<mode, image, prompt, isLoading, history, historyIndex,
                        activeFilter, storage, pending, crashed, converting>>
    ELSE /\ isLoading' = [isLoading EXCEPT !["background"] = TRUE]
         /\ error' = [error EXCEPT !["background"] = NoError]
         /\ activeFilter' = "none"
         /\ pending' = Append(pending,
              [w |-> "background", history |-> history["background"],
               historyIndex |-> historyIndex["background"],
               backgroundPrompt |-> prompt["background"],
               backgroundImage |-> image["background"]])
         /\ last' = Step("accept", "background")
         /\ UNCHANGED <<mode, image, prompt, history, historyIndex, storage, crashed, converting>>

\* handleGenerateBgChange up to its await.
handleGenerateBgChange ==
  IF image["source"] = NoFile
    THEN /\ error' = [error EXCEPT !["background"] = SourceValidationMessage]
         /\ last' = Step("reject", "background")
         /\ UNCHANGED <<mode, image, prompt, isLoading, history, historyIndex,
                        activeFilter, storage, pending, crashed, converting>>
  ELSE IF image["background"] = NoFile /\ Trim(prompt["background"]) = << >>
    THEN /\ error' = [error EXCEPT !["background"] = BackgroundValidationMessage]
         /\ last' = Step("reject", "background")
         /\ UNCHANGED <<mode, image, prompt, isLoading, history, historyIndex,
                        activeFilter, storage, pending, crashed, converting>>
    ELSE /\ isLoading' = [isLoading EXCEPT !["background"] = TRUE]
         /\ error' = [error EXCEPT !["background"] = NoError]
         /\ activeFilter' = "none"
         /\ pending' = Append(pending,
              [w |-> "background", history |-> history["background"],
               historyIndex |-> historyIndex["background"],
               backgroundPrompt |-> prompt["background"],
               backgroundImage |-> image["background"]])
         /\ last' = Step("accept", "background")
         /\ UNCHANGED <<mode, image, prompt, history, historyIndex, storage, crashed, converting>>

\* The history of workflow w as a step finds it, with its current image.
Before(w) ==
  [history |-> history[w], historyIndex |-> historyIndex[w],
   resultImage |-> ItemAt(history[w], historyIndex[w]).val]

\* The new history with `history.slice(0, historyIndex)` where the code has
\* `history.slice(0, historyIndex + 1)`.
NewHistoryCutAtIndex(p, data) == Push(Slice(p.history, p.historyIndex).val, DataUrl(data))

\* The histories after the try block of a generate handler ran to its end
\* with the image `data`, for the call p: the history and index its closure
\* holds, cut after the index, plus the new image.
NewHistory(p, data) == Push(Slice(p.history, JSPlus(p.historyIndex, 1)).val, DataUrl(data))

NewHistoryIndex(p, data) == Len(NewHistory(p, data).val.items) - 1

\* The try block throws a TypeError of its own.
TryBlockThrows(p, data) ==
  ~Slice(p.history, JSPlus(p.historyIndex, 1)).ok \/ ~NewHistory(p, data).ok

\* What the client answers to the call p (a try-on call keeps no background
\* arguments here: dressModel's answer does not depend on them) when the remote call ends in outcome.
ClientResult(p, outcome) ==
  IF p.w = "tryon" THEN dressModel(outcome)
  ELSE changeBackground(p.backgroundPrompt, p.backgroundImage, outcome)

\* The calls of ai.models.generateContent the client call p makes: the one
\* call of dressModel, the one call of changeBackground unless it throws
\* before its try block. No path calls it a second time.
Requests(p) ==
  IF p.w = "tryon" THEN 1
  ELSE IF InvalidRequest(p.backgroundPrompt, p.backgroundImage) THEN 0
  ELSE 1

\* The rest of a generate handler writing to the workflow selected when the
\* call settles instead of the workflow that issued it.
GenerateSettlesOnSelected(k, outcome) ==
  LET p == pending[k]
      w == mode
      result == ClientResult(p, outcome)
      rest == SubSeq(pending, 1, k - 1) \o SubSeq(pending, k + 1, Len(pending))
  IN
  /\ pending' = rest
  /\ isLoading' = [isLoading EXCEPT ![w] = FALSE]
  /\ IF result.ok /\ ~TryBlockThrows(p, result.data)
       THEN /\ history' = [history EXCEPT ![w] = NewHistory(p, result.data).val]
            /\ historyIndex' = [historyIndex EXCEPT ![w] = NewHistoryIndex(p, result.data)]
            /\ storage' = Persist(storage, w, NewHistory(p, result.data).val,
                                  NewHistoryIndex(p, result.data))
            /\ last' = [Step("success", w) EXCEPT !.pre = Before(w)]
            /\ UNCHANGED error
       ELSE /\ error' = [error EXCEPT ![w] =
                 IF result.ok THEN NotAFunctionMessage ELSE result.message]
            /\ last' = Step("failure", w)
            /\ UNCHANGED <<history, historyIndex, storage>>
  /\ UNCHANGED <<mode, image, prompt, activeFilter, crashed, converting>>

\* The rest of a generate handler whose finally block does not clear the
\* loading flag.
GenerateSettlesStaysLoading(k, outcome) ==
  LET p == pending[k]
      w == p.w
      result == ClientResult(p, outcome)
      rest == SubSeq(pending, 1, k - 1) \o SubSeq(pending, k + 1, Len(pending))
  IN
  /\ pending' = rest
  /\ IF result.ok /\ ~TryBlockThrows(p, result.data)
       THEN /\ history' = [history EXCEPT ![w] = NewHistory(p, result.data).val]
            /\ historyIndex' = [historyIndex EXCEPT ![w] = NewHistoryIndex(p, result.data)]
            /\ storage' = Persist(storage, w, NewHistory(p, result.data).val,
                                  NewHistoryIndex(p, result.data))
            /\ last' = [Step("success", w) EXCEPT !.pre = Before(w)]
            /\ UNCHANGED error
       ELSE /\ error' = [error EXCEPT ![w] =
                 IF result.ok THEN NotAFunctionMessage ELSE result.message]
            /\ last' = Step("failure", w)
            /\ UNCHANGED <<history, historyIndex, storage>>
  /\ UNCHANGED <<mode, image, prompt, activeFilter, crashed, isLoading, converting>>

\* The rest of a generate handler without its finally block: a failure leaves
\* the loading flag set.
GenerateSettlesNoFinally(k, outcome) ==
  LET p == pending[k]
      w == p.w
      result == ClientResult(p, outcome)
      rest == SubSeq(pending, 1, k - 1) \o SubSeq(pending, k + 1, Len(pending))
  IN
  /\ pending' = rest
  /\ IF result.ok /\ ~TryBlockThrows(p, result.data)
       THEN /\ history' = [history EXCEPT ![w] = NewHistory(p, result.data).val]
            /\ historyIndex' = [historyIndex EXCEPT ![w] = NewHistoryIndex(p, result.data)]
            /\ storage' = Persist(storage, w, NewHistory(p, result.data).val,
                                  NewHistoryIndex(p, result.data))
            /\ isLoading' = [isLoading EXCEPT ![w] = FALSE]
            /\ last' = [Step("success", w) EXCEPT !.pre = Before(w)]
            /\ UNCHANGED error
       ELSE /\ error' = [error EXCEPT ![w] =
                 IF result.ok THEN NotAFunctionMessage ELSE result.message]
            /\ last' = Step("failure", w)
            /\ UNCHANGED <<history, historyIndex, storage, isLoading>>
  /\ UNCHANGED <<mode, image, prompt, activeFilter, crashed, converting>>

\* The rest of a generate handler, from the await on: the awaited call of
\* pending[k] settles, then try, catch and finally, the render and the effects.
GenerateSettles(k, outcome) ==
  LET p == pending[k]
      w == p.w
      result == ClientResult(p, outcome)
      rest == SubSeq(pending, 1, k - 1) \o SubSeq(pending, k + 1, Len(pending))
  IN
  /\ pending' = rest
  /\ isLoading' = [isLoading EXCEPT ![w] = FALSE]
  /\ IF result.ok /\ ~TryBlockThrows(p, result.data)
       THEN /\ history' = [history EXCEPT ![w] = NewHistory(p, result.data).val]
            /\ historyIndex' = [historyIndex EXCEPT ![w] = NewHistoryIndex(p, result.data)]
            /\ storage' = Persist(storage, w, NewHistory(p, result.data).val,
                                  NewHistoryIndex(p, result.data))
            /\ last' = [Step("success", w) EXCEPT !.pre = Before(w)]
            /\ UNCHANGED error
       ELSE /\ error' = [error EXCEPT ![w] =
                 IF result.ok THEN NotAFunctionMessage ELSE result.message]
            /\ last' = Step("failure", w)
            /\ UNCHANGED <<history, historyIndex, storage>>
  /\ UNCHANGED <<mode, image, prompt, activeFilter, crashed, converting>>

\* handleUndo dropping the entry it leaves instead of keeping it for redo.
handleUndoDropsEntry ==
  /\ IF JSGreater(historyIndex[mode], 0)
       THEN /\ historyIndex' = [historyIndex EXCEPT ![mode] = JSMinus(@, 1)]
            /\ history' = [history EXCEPT ![mode] = Slice(@, historyIndex[mode]).val]
            /\ activeFilter' = "none"
            /\ storage' = Persist(storage, mode, Slice(history[mode], historyIndex[mode]).val,
                                  JSMinus(historyIndex[mode], 1))
       ELSE UNCHANGED <<history, historyIndex, activeFilter, storage>>
  /\ last' = [Step("undo", mode) EXCEPT !.pre = Before(mode)]
  /\ UNCHANGED <<mode, image, prompt, isLoading, error, pending, crashed, converting>>

\* handleUndo resetting the filter before it looks at the index.
handleUndoResetsFilter ==
  /\ activeFilter' = "none"
  /\ IF JSGreater(historyIndex[mode], 0)
       THEN /\ historyIndex' = [historyIndex EXCEPT ![mode] = JSMinus(@, 1)]
            /\ storage' = Persist(storage, mode, history[mode], JSMinus(historyIndex[mode], 1))
       ELSE UNCHANGED <<historyIndex, storage>>
  /\ last' = [Step("undo", mode) EXCEPT !.pre = Before(mode)]
  /\ UNCHANGED <<mode, image, prompt, isLoading, error, history, pending, crashed, converting>>

\* handleUndo without its guard: the index goes down whatever it is.
handleUndoUnguarded ==
  /\ historyIndex' = [historyIndex EXCEPT ![mode] = JSMinus(@, 1)]
  /\ activeFilter' = "none"
  /\ storage' = Persist(storage, mode, history[mode], JSMinus(historyIndex[mode], 1))
  /\ last' = [Step("undo", mode) EXCEPT !.pre = Before(mode)]
  /\ UNCHANGED <<mode, image, prompt, isLoading, error, history, pending, crashed, converting>>

\* handleUndo moving the try-on index in either mode.
handleUndoTryOnOnly ==
  /\ IF JSGreater(historyIndex[mode], 0)
       THEN /\ historyIndex' = [historyIndex EXCEPT !["tryon"] = JSMinus(@, 1)]
            /\ activeFilter' = "none"
            /\ storage' = Persist(storage, "tryon", history["tryon"],
                                  JSMinus(historyIndex["tryon"], 1))
       ELSE UNCHANGED <<historyIndex, activeFilter, storage>>
  /\ last' = [Step("undo", mode) EXCEPT !.pre = Before(mode)]
  /\ UNCHANGED <<mode, image, prompt, isLoading, error, history, pending, crashed, converting>>

\* handleUndo.
handleUndo ==
  /\ IF JSGreater(historyIndex[mode], 0)
       THEN /\ historyIndex' = [historyIndex EXCEPT ![mode] = JSMinus(@, 1)]
            /\ activeFilter' = "none"
            /\ storage' = Persist(storage, mode, history[mode], JSMinus(historyIndex[mode], 1))
       ELSE UNCHANGED <<historyIndex, activeFilter, storage>>
  /\ last' = [Step("undo", mode) EXCEPT !.pre = Before(mode)]
  /\ UNCHANGED <<mode, image, prompt, isLoading, error, history, pending, crashed, converting>>

\* handleRedo without setActiveFilter('none').
handleRedoKeepsFilter ==
  /\ IF JSLess(historyIndex[mode], JSMinus(Length(history[mode]).val, 1))
       THEN /\ historyIndex' = [historyIndex EXCEPT ![mode] = JSPlus(@, 1)]
            /\ storage' = Persist(storage, mode, history[mode], JSPlus(historyIndex[mode], 1))
       ELSE UNCHANGED <<historyIndex, storage>>
  /\ UNCHANGED activeFilter
  /\ last' = [Step("redo", mode) EXCEPT
                !.pre = Before(mode),
                !.undone = IF last.op = "undo" /\ last.w = mode THEN last.pre ELSE NoPre]
  /\ UNCHANGED <<mode, image, prompt, isLoading, error, history, pending, crashed, converting>>

\* handleRedo with `historyIndex < history.length` where the code has
\* `historyIndex < history.length - 1`.
handleRedoPastEnd ==
  /\ IF JSLess(historyIndex[mode], Length(history[mode]).val)
       THEN /\ historyIndex' = [historyIndex EXCEPT ![mode] = JSPlus(@, 1)]
            /\ activeFilter' = "none"
            /\ storage' = Persist(storage, mode, history[mode], JSPlus(historyIndex[mode], 1))
       ELSE UNCHANGED <<historyIndex, activeFilter, storage>>
  /\ last' = [Step("redo", mode) EXCEPT
                !.pre = Before(mode),
                !.undone = IF last.op = "undo" /\ last.w = mode THEN last.pre ELSE NoPre]
  /\ UNCHANGED <<mode, image, prompt, isLoading, error, history, pending, crashed, converting>>

\* handleRedo.
handleRedo ==
  /\ IF JSLess(historyIndex[mode], JSMinus(Length(history[mode]).val, 1))
       THEN /\ historyIndex' = [historyIndex EXCEPT ![mode] = JSPlus(@, 1)]
            /\ activeFilter' = "none"
            /\ storage' = Persist(storage, mode, history[mode], JSPlus(historyIndex[mode], 1))
       ELSE UNCHANGED <<historyIndex, activeFilter, storage>>
  /\ last' = [Step("redo", mode) EXCEPT
                !.pre = Before(mode),
                !.undone = IF last.op = "undo" /\ last.w = mode THEN last.pre ELSE NoPre]
  /\ UNCHANGED <<mode, image, prompt, isLoading, error, history, pending, crashed, converting>>

\* ------------------------------------------------------------ the rendered controls

\* An image is chosen for (or dropped on) an empty slot and converted.
UploadImage ==
  \E s \in SlotsOf(mode), f \in Files :
    /\ ~crashed
    /\ image[s] = NoFile
    /\ image' = [image EXCEPT ![s] = f]
    /\ last' = Step("other", "tryon")
    /\ UNCHANGED <<mode, prompt, isLoading, error, history, historyIndex,
                   activeFilter, storage, pending, crashed, converting>>

\* handleClear of a slot's uploader (the button shown over the preview).
ClearImage ==
  \E s \in SlotsOf(mode) :
    /\ ~crashed
    /\ image[s] # NoFile
    /\ image' = [image EXCEPT ![s] = NoFile]
    /\ last' = Step("other", "tryon")
    /\ UNCHANGED <<mode, prompt, isLoading, error, history, historyIndex,
                   activeFilter, storage, pending, crashed, converting>>

\* Typing into a prompt field: the try-on field is part of the result
\* controls, the background changer's field is always there in its mode.
SetPrompt ==
  \E text \in TypedPrompts :
    /\ ~crashed
    /\ mode = "tryon" => ResultControlsShown
    /\ prompt' = [prompt EXCEPT ![mode] = text]
    /\ last' = Step("other", "tryon")
    /\ UNCHANGED <<mode, image, isLoading, error, history, historyIndex,
                   activeFilter, storage, pending, crashed, converting>>

\* A filter preview is clicked.
SetActiveFilter ==
  \E f \in Filters :
    /\ ~crashed
    /\ ResultControlsShown
    /\ activeFilter' = f
    /\ last' = Step("other", "tryon")
    /\ UNCHANGED <<mode, image, prompt, isLoading, error, history, historyIndex,
                   storage, pending, crashed, converting>>

\* The other mode's button is clicked; the next render computes resultImage
\* for m.
SetMode ==
  \E m \in Workflows \ {mode} :
    /\ ~crashed
    /\ mode' = m
    /\ crashed' = RenderThrows(m, history, historyIndex)
    /\ last' = Step("other", "tryon")
    /\ UNCHANGED <<image, prompt, isLoading, error, history, historyIndex,
                   activeFilter, storage, pending, converting>>

\* The Generate Try-On button.
ClickGenerateTryOn ==
  /\ ~crashed
  /\ mode = "tryon"
  /\ ~(image["model"] = NoFile \/ image["clothing"] = NoFile \/ anyLoading)
  /\ handleGenerateTryOn("default")

\* The Tighter and Looser buttons.
ClickFit ==
  \E fit \in {"tighter", "looser"} :
    /\ ~crashed
    /\ mode = "tryon"
    /\ ResultControlsShown
    /\ handleGenerateTryOn(fit)

\* The Apply button next to the try-on background prompt.
ClickApply ==
  /\ ~crashed
  /\ mode = "tryon"
  /\ ResultControlsShown
  /\ Trim(prompt["tryon"]) # << >>
  /\ handleGenerateTryOn("default")

\* The Generate button of the background changer.
ClickGenerateBgChange ==
  /\ ~crashed
  /\ mode = "background"
  /\ ~(image["source"] = NoFile
        \/ (image["background"] = NoFile /\ Trim(prompt["background"]) = << >>)
        \/ anyLoading)
  /\ handleGenerateBgChange

\* The Undo button.
ClickUndo ==
  /\ ~crashed
  /\ ~(~canUndo \/ anyLoading)
  /\ handleUndo

\* The Redo button.
ClickRedo ==
  /\ ~crashed
  /\ ~(~canRedo \/ anyLoading)
  /\ handleRedo

\* The number of entries of a history (of an array).
Stored(h) == IF h.t = "array" THEN Len(h.items) ELSE 0

\* The remote call answers with an image only while the two histories stay
\* within MaxStored entries.
HasRoom(p, outcome) ==
  outcome.kind = "image" /\ ~TryBlockThrows(p, outcome.data)
    => Stored(NewHistory(p, outcome.data).val)
         + Stored(history[CHOOSE w \in Workflows : w # p.w]) <= MaxStored

\* The entries the two histories hold.
InUse == UNION {{history[w].items[n] : n \in 1..Len(history[w].items)} : w \in Workflows}

\* The images being interchangeable, the remote call answers with the first
\* one that no history holds.
Unseen(outcome) ==
  outcome.kind = "image" =>
    \E k \in 1 .. MaxStored + 1 :
      /\ outcome.data = <<ImageNames[k]>>
      /\ DataUrl(outcome.data) \notin InUse
      /\ \A j \in 1 .. k - 1 : DataUrl(<<ImageNames[j]>>) \in InUse

\* An awaited client call settles.
Settle ==
  \E k \in 1..Len(pending), outcome \in RemoteOutcomes :
    /\ ~crashed
    /\ HasRoom(pending[k], outcome)
    /\ Unseen(outcome)
    /\ GenerateSettles(k, outcome)

Next ==
  \/ UploadImage
  \/ ClearImage
  \/ SetPrompt
  \/ SetActiveFilter
  \/ SetMode
  \/ ClickGenerateTryOn
  \/ ClickFit
  \/ ClickApply
  \/ ClickGenerateBgChange
  \/ ClickUndo
  \/ ClickRedo
  \/ Settle
  \/ Restart

\* The application as its user drives it, from a first visit on.
Spec == Init /\ [][Next]_vars

\* The application as its user drives it, every awaited client call
\* eventually resolving or rejecting: the promise a handler awaits settles,
\* and the rest of the handler then runs.
SpecSettling == Init /\ [][Next]_vars /\ WF_vars(Settle)

\* ------------------------------------------------------------ the handlers called directly

\* The handlers called whatever the rendered controls allow (a control's
\* `disabled` and the hiding of the result controls are not consulted), over
\* every content of the upload slots and of the background prompt.
InitCalls ==
  /\ Mounted(NoStorage)
  /\ image \in [Slots -> {NoFile} \cup Files]
  /\ \E text \in PromptValues : prompt = [w \in Workflows |->
                                    IF w = "background" THEN text ELSE << >>]

CallGenerateTryOn ==
  \E fit \in Fits :
    /\ ~crashed
    /\ (image["model"] # NoFile /\ image["clothing"] # NoFile) => Len(pending) < MaxPending
    /\ handleGenerateTryOn(fit)

CallGenerateBgChange ==
  /\ ~crashed
  /\ Len(pending) < MaxPending
  /\ handleGenerateBgChange

CallUndo == ~crashed /\ handleUndo

CallRedo == ~crashed /\ handleRedo

NextCalls ==
  \/ CallGenerateTryOn
  \/ CallGenerateBgChange
  \/ CallUndo
  \/ CallRedo
  \/ Settle
  \/ SetMode
  \/ SetActiveFilter
  \/ Restart

SpecCalls == InitCalls /\ [][NextCalls]_vars

\* ------------------------------------------------------------ the client called directly

\* The files handed to the client: two, to tell the images of a call apart.
SentFiles == {"file", "file2"}

\* dressModel and changeBackground called with the contents of the upload
\* slots and of the prompt fields as arguments, over every content of them
\* (the images a signature requires are there).
InitClient ==
  /\ Mounted(NoStorage)
  /\ image \in [Slots -> {NoFile} \cup SentFiles]
  /\ prompt \in [Workflows -> PromptValues]

\* The record of a client call: the parts sent (none when no request was
\* made), how the remote call ended, and the result of the client.
Called(parts, outcome, result) ==
  [outcome |-> IF parts = << >> THEN "(none)" ELSE outcome.kind, parts |-> parts,
   ok |-> result.ok, data |-> result.data, message |-> result.message]

CallDressModel ==
  \E fit \in Fits, outcome \in RemoteOutcomes :
    /\ image["model"] # NoFile
    /\ image["clothing"] # NoFile
    /\ last' = [Step("dressModel", "tryon") EXCEPT !.call =
                  Called(DressModelParts(image["model"], image["clothing"], fit, prompt["tryon"]),
                         outcome, dressModel(outcome))]
    /\ UNCHANGED <<mode, image, prompt, isLoading, error, history, historyIndex,
                   activeFilter, storage, pending, crashed, converting>>

CallChangeBackground ==
  \E outcome \in RemoteOutcomes :
    /\ image["source"] # NoFile
    /\ last' = [Step("changeBackground", "background") EXCEPT !.call =
                  Called(ChangeBackgroundParts(image["source"], prompt["background"],
                                               image["background"]),
                         outcome,
                         changeBackground(prompt["background"], image["background"], outcome))]
    /\ UNCHANGED <<mode, image, prompt, isLoading, error, history, historyIndex,
                   activeFilter, storage, pending, crashed, converting>>

NextClient ==
  \/ CallDressModel
  \/ CallChangeBackground

SpecClient == InitClient /\ [][NextClient]_vars

\* ------------------------------------------------------------ the uploads as they convert

\* The conversions awaited at once (a guard of the uploads below).
MaxConverting == 2

\* The files the user chooses, each with its `type` and with what
\* FileReader.readAsDataURL makes of it: a data URL in reader.result
\* (onload), or onerror. A picture, a second picture, an empty picture (no
\* data after the comma) and a file that cannot be read.
UserFiles ==
  {[name |-> "a.png", type |-> <<"image/", "png">>, readable |-> TRUE,
    result |-> <<"data:", "image/", "png", ";base64", ",", "a">>],
   [name |-> "b.jpg", type |-> <<"image/", "jpeg">>, readable |-> TRUE,
    result |-> <<"data:", "image/", "jpeg", ";base64", ",", "b">>],
   [name |-> "empty.png", type |-> <<"image/", "png">>, readable |-> TRUE,
    result |-> <<"data:", "image/", "png", ";base64", ",">>],
   [name |-> "unreadable", type |-> << >>, readable |-> FALSE,
    result |-> << >>]}

\* No file chosen after this one.
NoUserFile == [name |-> "(none)", type |-> << >>, readable |-> FALSE, result |-> << >>]

\* text.split(','): the pieces between the commas.
RECURSIVE SplitComma(_, _, _)
SplitComma(text, i, piece) ==
  IF i > Len(text) THEN <<piece>>
  ELSE IF text[i] = "," THEN <<piece>> \o SplitComma(text, i + 1, << >>)
  ELSE SplitComma(text, i + 1, Append(piece, text[i]))

\* header.match(/:(.*?);/)?.[1] || 'application/octet-stream': what stands
\* between the colon and the first semicolon.
MimeType(header) ==
  LET starts == {i \in 1..Len(header) : header[i] = "data:"}
      ends == {j \in 1..Len(header) : header[j] = ";base64"}
  IN IF starts = {} \/ ends = {} THEN <<"application/octet-stream">>
     ELSE LET i == CHOOSE x \in starts : \A y \in starts : x <= y
              later == {j \in ends : j > i}
          IN IF later = {} THEN <<"application/octet-stream">>
             ELSE LET j == CHOOSE x \in later : \A y \in later : x <= y
                      group == SubSeq(header, i + 1, j - 1)
                  IN IF group = << >> THEN <<"application/octet-stream">> ELSE group

\* A Base64File.
Base64File(base64, mimeType) == [base64 |-> base64, mimeType |-> mimeType]

\* fileToBase64(file): the promise resolves with the Base64File, or rejects
\* (onerror, or a data URL without header or without data).
fileToBase64(file) ==
  IF ~file.readable THEN [ok |-> FALSE, val |-> Base64File(<< >>, << >>)]
  ELSE LET pieces == SplitComma(file.result, 1, << >>)
           header == pieces[1]
           data == IF Len(pieces) >= 2 THEN pieces[2] ELSE << >>
       IN IF header = << >> \/ data = << >>
            THEN [ok |-> FALSE, val |-> Base64File(<< >>, << >>)]
            ELSE [ok |-> TRUE, val |-> Base64File(data, MimeType(header))]

\* The name under which a slot holds a Base64File.
Held(base64File) ==
  IF base64File = Base64File(<<"a">>, <<"image/", "png">>) THEN "file"
  ELSE IF base64File = Base64File(<<"b">>, <<"image/", "jpeg">>) THEN "file2"
  ELSE "file3"

\* What onImageChange receives once the conversion of file has settled: the
\* Base64File, or null from the catch block.
Converted(file) ==
  IF fileToBase64(file).ok THEN Held(fileToBase64(file).val) ELSE NoFile

\* The awaited conversions of slot s.
Converting(s) == {k \in 1..Len(converting) : converting[k].slot = s}

\* An upload handler up to its await: the conversion of file f for slot s
\* starts. Every conversion of s already awaited learns that a later file
\* was chosen (`later` is kept for stating the claims only).
StartConversion(op, s, f) ==
  /\ converting' = Append([k \in 1..Len(converting) |->
                             IF converting[k].slot = s
                               THEN [converting[k] EXCEPT !.later = f]
                               ELSE converting[k]],
                          [slot |-> s, file |-> f, later |-> NoUserFile])
  /\ last' = [Step(op, "tryon") EXCEPT !.slot = s]
  /\ UNCHANGED <<mode, image, prompt, isLoading, error, history, historyIndex,
                 activeFilter, storage, pending, crashed>>

\* handleFileChange: a file is chosen through the file input, which the
\* label of an empty slot opens.
ChooseFile ==
  \E s \in SlotsOf(mode), f \in UserFiles :
    /\ ~crashed
    /\ image[s] = NoFile
    /\ Len(converting) < MaxConverting
    /\ StartConversion("choose", s, f)

\* handleDrop: a file is dropped on the label of an empty slot; a file whose
\* type does not start with 'image/' is ignored.
DropFile ==
  \E s \in SlotsOf(mode), f \in UserFiles :
    /\ ~crashed
    /\ image[s] = NoFile
    /\ Len(converting) < MaxConverting
    /\ f.type # << >> /\ Head(f.type) = "image/"
    /\ StartConversion("drop", s, f)

\* The rest of an upload handler with a catch block that also reports the
\* failure as the error of the selected workflow.
ConversionSettlesReportsError ==
  \E k \in 1..Len(converting) :
    LET c == converting[k] IN
    /\ ~crashed
    /\ converting' = SubSeq(converting, 1, k - 1) \o SubSeq(converting, k + 1, Len(converting))
    /\ image' = [image EXCEPT ![c.slot] = Converted(c.file)]
    /\ error' = IF fileToBase64(c.file).ok THEN error
                ELSE [error EXCEPT ![mode] = UnknownErrorMessage]
    /\ last' = [Step(IF fileToBase64(c.file).ok THEN "converted" ELSE "decodeError", "tryon")
                  EXCEPT !.slot = c.slot]
    /\ UNCHANGED <<mode, prompt, isLoading, history, historyIndex,
                   activeFilter, storage, pending, crashed>>

\* The rest of an upload handler: an awaited conversion settles, whichever
\* was chosen first, and onImageChange gets the Base64File or, from the
\* catch block, null.
ConversionSettles ==
  \E k \in 1..Len(converting) :
    LET c == converting[k] IN
    /\ ~crashed
    /\ converting' = SubSeq(converting, 1, k - 1) \o SubSeq(converting, k + 1, Len(converting))
    /\ image' = [image EXCEPT ![c.slot] = Converted(c.file)]
    /\ last' = [Step(IF fileToBase64(c.file).ok THEN "converted" ELSE "decodeError", "tryon")
                  EXCEPT !.slot = c.slot]
    /\ UNCHANGED <<mode, prompt, isLoading, error, history, historyIndex,
                   activeFilter, storage, pending, crashed>>

NextUpload ==
  \/ ChooseFile
  \/ DropFile
  \/ ConversionSettles
  \/ ClearImage
  \/ ClickGenerateTryOn
  \/ Settle

\* The application in its try-on mode, its uploads converting while the
\* user goes on uploading, clearing and generating.
SpecUpload == Init /\ [][NextUpload]_vars

\* ------------------------------------------------------------ startup over any storage

Entry1 == DataUrl(<<"g1">>)

Entry2 == DataUrl(<<"g2">>)

\* What the history key may hold when the application starts: nothing, the
\* empty text, texts JSON.parse rejects, entry lists, and JSON that is no list.
StoredHistoryTexts ==
  {Absent, << >>, <<"{">>, <<"[", Quote, "a">>,
   <<"[", "]">>, JSONstringify(Arr(<<Entry1>>)), JSONstringify(Arr(<<Entry1, Entry2>>)),
   <<"null">>, <<NumberLiteral>>, <<Quote, "a", "b", Quote>>}

\* What the index key may hold: nothing, the empty text, integers in and out
\* of range, and texts that are no integer.
StoredIndexTexts ==
  {Absent, << >>, <<"-", "1">>, <<"0">>, <<"1">>, <<"2">>,
   <<"N", "a", "N">>, <<"x">>, <<"1", "x">>, <<" ", "1">>}

FoundStorages ==
  {st \in [Keys -> StoredHistoryTexts \cup StoredIndexTexts] :
     \A w \in Workflows : /\ st[HistoryKey(w)] \in StoredHistoryTexts
                          /\ st[IndexKey(w)] \in StoredIndexTexts}

InitStorage == \E st \in FoundStorages : Mounted(st) /\ NoInputs

NextStorage ==
  \/ SetMode
  \/ ClickUndo
  \/ ClickRedo
  \/ Restart

SpecStorage == InitStorage /\ [][NextStorage]_vars

\* ------------------------------------------------------------ properties

\* The workflow that is not w.
OtherWorkflow(w) == CHOOSE x \in Workflows : x # w

\* The entries of workflow w (only an array has entries).
Entries(w) == history[w].items

\* The current image of workflow w: absent at cursor -1, else the entry there.
CurrentImage(w) == ItemAt(history[w], historyIndex[w]).val

C2_SuccessTruncatesAndAppends ==
  [][last'.op = "success" =>
       LET w == last'.w IN
       /\ history'[w].t = "array"
       /\ Len(history'[w].items) = historyIndex[w] + 2
       /\ SubSeq(history'[w].items, 1, historyIndex[w] + 1)
            = SubSeq(history[w].items, 1, historyIndex[w] + 1)
       /\ \E g \in GeneratedImages : history'[w].items[historyIndex[w] + 2] = DataUrl(g)
       /\ historyIndex'[w] = Len(history'[w].items) - 1]_vars

\* The third success of the scenario: two entries with the cursor on the
\* first before it, two entries with the cursor on the second after it.
C2_Witness ==
  /\ last.op = "success"
  /\ Len(last.pre.history.items) = 2
  /\ last.pre.historyIndex = 0
  /\ Len(Entries(last.w)) = 2
  /\ historyIndex[last.w] = 1
  /\ Entries(last.w)[1] = last.pre.history.items[1]

\* The redo just made directly follows an undo of the same workflow.
RedoAfterUndo == last.op = "redo" /\ last.undone # NoPre

\* The history of the redo's workflow is what the undo before it had found.
RoundTrip ==
  /\ history[last.w] = last.undone.history
  /\ historyIndex[last.w] = last.undone.historyIndex
  /\ CurrentImage(last.w) = last.undone.resultImage

\* C3 as amended: calling undo and then redo with nothing in between leaves
\* the cursor, the entries and the current image as they were before the
\* undo, unless the cursor was 0 with entries after it (there the undo does
\* nothing and the redo moves on to entry 1).
C3_RoundTripWhenUndoMovesOrRedoCannot ==
  RedoAfterUndo
    /\ ~(last.undone.historyIndex = 0 /\ Len(last.undone.history.items) > 1)
    => RoundTrip

\* An undo from the second of two entries, then the redo back to it.
C3_Witness ==
  /\ RedoAfterUndo
  /\ last.undone.historyIndex = 1
  /\ last.pre.historyIndex = 0
  /\ historyIndex[last.w] = 1

\* C3 as stated: in any reachable history state, undo and then redo leaves
\* the cursor, the entries and the current image as they were before the undo.
C3_RoundTripEverywhere == RedoAfterUndo => RoundTrip

\* C4: when an accepted generate fails (the client throws), the workflow's
\* entries and cursor are what they were before the generate (when it was
\* called and when it settles), its error message is set and its loading
\* flag is cleared.
C4_FailureKeepsHistory ==
  [][last'.op = "failure" =>
       LET w == last'.w IN
       /\ history'[w] = history[w]
       /\ historyIndex'[w] = historyIndex[w]
       /\ \E k \in 1..Len(pending) :
            /\ pending[k].w = w
            /\ pending[k].history = history'[w]
            /\ pending[k].historyIndex = historyIndex'[w]
       /\ error'[w] # NoError
       /\ isLoading[w]
       /\ ~isLoading'[w]]_vars

\* A generate failed in a workflow that holds an entry.
C4_Witness ==
  /\ last.op = "failure"
  /\ historyIndex[last.w] = 0
  /\ error[last.w] \in {TryOnFailedMessage, BackgroundFailedMessage}
  /\ ~isLoading[last.w]

\* C5: a try-on generate issued while the model image or the clothing image
\* is absent (also through Tighter, Looser and Apply) is rejected: it never
\* invokes the client, sets the validation error message, and leaves
\* entries, cursor, loading flag and active filter unchanged.
C5_TryOnRejectedWithoutImages ==
  [][last'.w = "tryon" /\ last'.op \in {"reject", "accept"} =>
       /\ last'.op = "reject" <=> (image["model"] = NoFile \/ image["clothing"] = NoFile)
       /\ last'.op = "reject" =>
            /\ pending' = pending
            /\ error'["tryon"] = TryOnValidationMessage
            /\ error'["tryon"] # NoError
            /\ history' = history
            /\ historyIndex' = historyIndex
            /\ isLoading' = isLoading
            /\ activeFilter' = activeFilter]_vars

\* A fit or background control was used on a filtered result after the
\* clothing image was cleared.
C5_Witness ==
  /\ last.op = "reject"
  /\ last.w = "tryon"
  /\ image["model"] # NoFile
  /\ image["clothing"] = NoFile
  /\ activeFilter # "none"
  /\ historyIndex["tryon"] = 0
  /\ pending = << >>

\* C6: a background-change generate is rejected without invoking the client
\* whenever the source image is absent, or the background image is absent and
\* the prompt is empty or only whitespace; it is accepted (the client is
\* invoked) otherwise, in particular with a background image and an empty
\* prompt.
C6_BackgroundRejectedExactlyWhen ==
  [][last'.w = "background" /\ last'.op \in {"reject", "accept"} =>
       LET text == prompt["background"]
           blank == \A n \in 1..Len(text) : text[n] = " "
           missing == image["source"] = NoFile \/ (image["background"] = NoFile /\ blank)
       IN /\ last'.op = "reject" <=> missing
          /\ missing => pending' = pending /\ error'["background"] # NoError
          /\ ~missing => /\ Len(pending') = Len(pending) + 1
                         /\ pending'[Len(pending')].w = "background"
                         /\ isLoading'["background"]]_vars

\* Accepted with a background image and an empty prompt.
C6_Witness ==
  /\ last.op = "accept"
  /\ last.w = "background"
  /\ image["source"] # NoFile
  /\ image["background"] # NoFile
  /\ prompt["background"] = << >>
  /\ Len(pending) = 1

\* The text is the serialisation of a list of entries.
ValidEntryList(text) ==
  /\ text # Absent
  /\ JSONparse(text).ok
  /\ JSONparse(text).val.t = "array"

\* C7: at startup, for every stored value of the entry-list key that is
\* corrupt, unparseable or otherwise not a valid entry list, and every stored
\* cursor value, the rehydrated history is entries = [] with cursor = -1, and
\* no exception propagates from initialisation or from computing the current
\* image.
C7_InvalidListGivesEmptyHistory ==
  \A w \in Workflows :
    last.found[HistoryKey(w)] # Absent /\ ~ValidEntryList(last.found[HistoryKey(w)])
      => /\ history[w] = Arr(<< >>)
         /\ historyIndex[w] = -1
         /\ ~crashed
         /\ ItemAt(history[w], historyIndex[w]).ok

\* The stored entry-list text is the JSON null: the history is null, and the
\* render that computes the current image of that workflow has thrown.
C7_Witness ==
  /\ crashed
  /\ history[mode] = Null
  /\ storage[HistoryKey(mode)] = <<"null">>

\* The cursor a start must give for a list of n entries and the stored
\* index text raw: the stored integer when it lies in 0..n-1, else n - 1
\* (which is -1 for no entries).
ExpectedCursor(n, raw) ==
  IF Truthy(raw) /\ ParseInt(raw) \in 0 .. n - 1 THEN ParseInt(raw) ELSE n - 1

\* C8: at startup with a valid stored entry list of length n, the rehydrated
\* cursor is the stored cursor when it is an integer in [0, n-1]; when the
\* stored cursor is absent, unparseable or out of that range it is n - 1 for
\* n > 0 and -1 for n = 0; so it always lies in [-1, n-1].
C8_RehydratedCursor ==
  last.op = "start" =>
    \A w \in Workflows :
      ValidEntryList(last.found[HistoryKey(w)]) =>
        LET n == Len(JSONparse(last.found[HistoryKey(w)]).val.items)
            raw == last.found[IndexKey(w)]
        IN /\ history[w] = JSONparse(last.found[HistoryKey(w)]).val
           /\ historyIndex[w] = ExpectedCursor(n, raw)
           /\ \A k \in 0 .. n - 1 : raw = NumberToString(k) => historyIndex[w] = k
           /\ (raw = Absent \/ IsNaN(ParseInt(raw))) => historyIndex[w] = n - 1
           /\ n = 0 => historyIndex[w] = -1
           /\ historyIndex[w] \in -1 .. n - 1

\* A start over two stored entries and the stored cursor 0, next to a
\* workflow whose stored cursor 2 is out of range.
C8_Witness ==
  /\ last.op = "start"
  /\ last.found[HistoryKey("tryon")] = JSONstringify(Arr(<<Entry1, Entry2>>))
  /\ last.found[IndexKey("tryon")] = <<"0">>
  /\ historyIndex["tryon"] = 0
  /\ last.found[HistoryKey("background")] = JSONstringify(Arr(<<Entry1>>))
  /\ last.found[IndexKey("background")] = <<"2">>
  /\ historyIndex["background"] = 0

\* C9: after startup and after every generate, undo or redo, the entry list
\* and the cursor read back from the workflow's two storage keys equal the
\* workflow's entries and cursor in memory.
C9_StorageMirrorsMemory ==
  ~crashed =>
    \A w \in Workflows :
      /\ storage[HistoryKey(w)] # Absent
      /\ JSONparse(storage[HistoryKey(w)]) = Ok(history[w])
      /\ storage[IndexKey(w)] # Absent
      /\ ParseInt(storage[IndexKey(w)]) = historyIndex[w]

\* After an undo from the second of two entries the index key holds 0.
C9_Witness ==
  /\ last.op = "undo"
  /\ last.pre.historyIndex = 1
  /\ storage[IndexKey(last.w)] = <<"0">>
  /\ storage[HistoryKey(last.w)] = JSONstringify(last.pre.history)
  /\ Len(last.pre.history.items) = 2

\* C10: a mode switch, and every generate, undo and redo of one workflow,
\* leave the other workflow's entries, cursor and persisted keys unchanged; a
\* mode switch changes neither workflow's entries or cursor.
C10_WorkflowsIndependent ==
  [][/\ last'.op \in {"reject", "accept", "success", "failure", "undo", "redo"} =>
          LET o == OtherWorkflow(last'.w) IN
          /\ history'[o] = history[o]
          /\ historyIndex'[o] = historyIndex[o]
          /\ storage'[HistoryKey(o)] = storage[HistoryKey(o)]
          /\ storage'[IndexKey(o)] = storage[IndexKey(o)]
     /\ (mode' # mode /\ last'.op # "start") =>
          /\ history' = history
          /\ historyIndex' = historyIndex
          /\ storage' = storage]_vars

\* A background generation settled with success while the try-on mode was
\* selected and the try-on history held an entry.
C10_Witness ==
  /\ last.op = "success"
  /\ last.w = "background"
  /\ mode = "tryon"
  /\ historyIndex["tryon"] = 0
  /\ historyIndex["background"] = 0

\* The generate calls of workflow w awaiting the client.
InFlight(w) == {k \in 1..Len(pending) : pending[k].w = w}

\* C11: while a workflow is generating, no second generate of that workflow
\* can be issued through Generate, Tighter, Looser or Apply until the first
\* has settled: a generate is only ever issued (accepted or rejected) by a
\* workflow that is not loading, and at most one generation per workflow is
\* in flight, the loading flag telling whether there is one.
C11_OneGenerationPerWorkflow ==
  [][/\ last'.op \in {"accept", "reject"} =>
          /\ ~isLoading[last'.w]
          /\ InFlight(last'.w) = {}
     /\ \A w \in Workflows :
          /\ Cardinality({k \in 1..Len(pending') : pending'[k].w = w}) <= 1
          /\ isLoading'[w] <=> \E k \in 1..Len(pending') : pending'[k].w = w]_vars

\* A try-on generation is in flight while both images, a result and the
\* try-on mode are there: only the loading flag keeps the triggers away.
C11_Witness ==
  /\ isLoading["tryon"]
  /\ InFlight("tryon") # {}
  /\ mode = "tryon"
  /\ image["model"] # NoFile
  /\ image["clothing"] # NoFile
  /\ resultImage # NoImage

\* What the client called in the last step answers when the remote call
\* itself is rejected.
GenericFailure ==
  IF last.op = "dressModel"
    THEN dressModel([kind |-> "error", data |-> << >>])
    ELSE changeBackground(prompt["background"], image["background"],
                          [kind |-> "error", data |-> << >>])

\* C12: when the remote call succeeds but its response holds no part with
\* inline image data, dressModel and changeBackground fail with a 'no image
\* produced' message that differs from the generic message they give when
\* the remote call itself errors.
C12_NoImageMessageDistinct ==
  (last.op \in {"dressModel", "changeBackground"} /\ last.call.outcome = "noimage") =>
    /\ ~last.call.ok
    /\ last.call.message \in {TryOnNoImageMessage, BackgroundNoImageMessage}
    /\ last.call.message # GenericFailure.message

\* dressModel got a response without an image part and failed with the
\* message it also gives for a rejected remote call.
C12_Witness ==
  /\ last.op = "dressModel"
  /\ last.call.outcome = "noimage"
  /\ ~last.call.ok
  /\ last.call.message = TryOnFailedMessage
  /\ last.call.message = GenericFailure.message

\* The text is empty or holds only spaces.
Blank(text) == \A n \in 1..Len(text) : text[n] = " "

\* C13: changeBackground called with an empty or whitespace-only
\* backgroundPrompt and no backgroundImage fails at once with the
\* invalid-request error, makes no remote call, and the error is not thrown
\* again as the generic generation failure.
C13_InvalidRequestFailsAtOnce ==
  (last.op = "changeBackground" /\ Blank(prompt["background"])
     /\ image["background"] = NoFile) =>
    /\ ~last.call.ok
    /\ last.call.message = InvalidRequestMessage
    /\ last.call.message # BackgroundFailedMessage
    /\ last.call.parts = << >>
    /\ last.call.outcome = "(none)"

\* changeBackground was called with a prompt of one space and no background
\* image.
C13_Witness ==
  /\ last.op = "changeBackground"
  /\ prompt["background"] = <<" ">>
  /\ image["background"] = NoFile
  /\ last.call.message = InvalidRequestMessage
  /\ last.call.parts = << >>

\* C14: every accepted generate causes exactly one request to the remote
\* model, also when the request fails or returns no image (nothing is sent
\* again when a call settles), and a rejected generate causes none.
C14_OneRequestPerAcceptedGenerate ==
  [][/\ last'.op = "accept" =>
          /\ Len(pending') = Len(pending) + 1
          /\ SubSeq(pending', 1, Len(pending)) = pending
          /\ pending'[Len(pending')].w = last'.w
          /\ Requests(pending'[Len(pending')]) = 1
     /\ last'.op \in {"success", "failure"} =>
          /\ Len(pending') = Len(pending) - 1
          /\ \A k \in 1..Len(pending') : \E j \in 1..Len(pending) : pending[j] = pending'[k]
     /\ last'.op \in {"reject", "undo", "redo", "other"} => pending' = pending
     /\ last'.op = "start" => pending' = << >>]_vars

\* A background generation was accepted with a background image and no
\* prompt, and failed: nothing is in flight any more.
C14_Witness ==
  /\ last.op = "failure"
  /\ last.w = "background"
  /\ image["background"] # NoFile
  /\ prompt["background"] = << >>
  /\ error["background"] = BackgroundFailedMessage
  /\ pending = << >>

\* C15: undo lowers the selected workflow's cursor by exactly 1 when cursor
\* > 0 and redo raises it by exactly 1 when cursor < entries.length - 1,
\* never changing entries; when the guard does not hold the call changes
\* nothing: entries, cursor, active filter and persisted state stay.
C15_UndoRedoGuards ==
  [][/\ last'.op = "undo" =>
          /\ last'.w = mode
          /\ history' = history
          /\ IF historyIndex[mode] > 0
               THEN historyIndex' = [historyIndex EXCEPT ![mode] = historyIndex[mode] - 1]
               ELSE /\ historyIndex' = historyIndex
                    /\ activeFilter' = activeFilter
                    /\ storage' = storage
     /\ last'.op = "redo" =>
          /\ last'.w = mode
          /\ history' = history
          /\ IF historyIndex[mode] < Len(Entries(mode)) - 1
               THEN historyIndex' = [historyIndex EXCEPT ![mode] = historyIndex[mode] + 1]
               ELSE /\ historyIndex' = historyIndex
                    /\ activeFilter' = activeFilter
                    /\ storage' = storage]_vars

\* An undo was called at cursor 0 with a filter selected: cursor and filter
\* are as they were.
C15_Witness ==
  /\ last.op = "undo"
  /\ last.w = mode
  /\ last.pre.historyIndex = 0
  /\ historyIndex[mode] = 0
  /\ activeFilter # "none"

\* C16: in every reachable state the derived view of the selected workflow
\* is: the current image is absent when cursor = -1 and entries[cursor]
\* otherwise; canUndo holds exactly when cursor > 0; canRedo holds exactly
\* when cursor < entries.length - 1.
C16_DerivedView ==
  LET cursor == historyIndex[mode] IN
  /\ cursor = -1 => resultImage = NoImage
  /\ cursor # -1 => /\ cursor \in 0 .. Len(Entries(mode)) - 1
                    /\ resultImage = Entries(mode)[cursor + 1]
  /\ canUndo <=> cursor > 0
  /\ canRedo <=> cursor < Len(Entries(mode)) - 1

\* The background changer is selected with its cursor on the first of two
\* entries: that entry is shown, redo is possible and undo is not.
C16_Witness ==
  /\ mode = "background"
  /\ historyIndex["background"] = 0
  /\ Len(Entries("background")) = 2
  /\ resultImage = Entries("background")[1]
  /\ canRedo
  /\ ~canUndo

\* C17: a workflow's error message is absent for the whole time the
\* workflow is generating and right after a successful generation; it
\* becomes non-absent only through a rejected or failed generate of that
\* workflow; undo, redo, a mode switch and the other workflow's operations
\* never set or clear it.
C17_ErrorLifecycle ==
  [][\A w \in Workflows :
       /\ isLoading'[w] => error'[w] = NoError
       /\ (last'.op = "success" /\ last'.w = w) => error'[w] = NoError
       /\ (error[w] = NoError /\ error'[w] # NoError) =>
            last'.op \in {"reject", "failure"} /\ last'.w = w
       /\ (\/ last'.op \in {"undo", "redo", "other"}
           \/ last'.op \in {"accept", "reject", "success", "failure"} /\ last'.w # w) =>
            error'[w] = error[w]]_vars

\* An undo was made in a workflow that shows the message of a failed
\* generation: the message is still there.
C17_Witness ==
  /\ last.op = "undo"
  /\ last.pre.historyIndex = 1
  /\ error[last.w] \in {TryOnFailedMessage, BackgroundFailedMessage}
  /\ error[OtherWorkflow(last.w)] = NoError

\* The kinds of the parts, in order.
Kinds(parts) == [n \in 1..Len(parts) |-> parts[n].kind]

\* C18: the ordered part list sent to the remote model is [model, clothing,
\* text] for try-on; [source, backgroundImage, text] for background-change
\* with a background image, the text being the second-image variant, which
\* with an empty prompt carries no user text; [source, text] without a
\* background image, the text being the generate-from-description variant.
\* The source or model image is always first and the text always last.
C18_PartLists ==
  LET parts == last.call.parts IN
  /\ last.op = "dressModel" =>
       /\ Kinds(parts) = <<"inlineData", "inlineData", "text">>
       /\ parts[1].file = image["model"]
       /\ parts[2].file = image["clothing"]
       /\ parts[3].variant = "dress"
  /\ (last.op = "changeBackground" /\ parts # << >> /\ image["background"] # NoFile) =>
       /\ Kinds(parts) = <<"inlineData", "inlineData", "text">>
       /\ parts[1].file = image["source"]
       /\ parts[2].file = image["background"]
       /\ parts[3].variant = "second-image"
       /\ prompt["background"] = << >> => ~parts[3].embeds /\ parts[3].userText = << >>
  /\ (last.op = "changeBackground" /\ parts # << >> /\ image["background"] = NoFile) =>
       /\ Kinds(parts) = <<"inlineData", "text">>
       /\ parts[1].file = image["source"]
       /\ parts[2].variant = "description"
       /\ parts[2].embeds
       /\ parts[2].userText = prompt["background"]
  /\ (last.op = "changeBackground" /\ parts = << >>) =>
       Blank(prompt["background"]) /\ image["background"] = NoFile

\* changeBackground was called with two different images and an empty
\* prompt, and sent three parts.
C18_Witness ==
  /\ last.op = "changeBackground"
  /\ image["source"] = "file2"
  /\ image["background"] = "file"
  /\ prompt["background"] = << >>
  /\ Len(last.call.parts) = 3
  /\ last.call.parts[1].file = "file2"

\* C19: from the moment a generate is accepted through its success or
\* failure, and after every undo or redo that moves the cursor, the active
\* filter is 'none'; the filter cannot be changed while a generation is in
\* flight.
C19_FilterReset ==
  [][/\ anyLoading' => activeFilter' = "none"
     /\ last'.op \in {"accept", "success", "failure"} => activeFilter' = "none"
     /\ (last'.op \in {"undo", "redo"} /\ historyIndex' # historyIndex) =>
          activeFilter' = "none"
     /\ (anyLoading /\ anyLoading') => activeFilter' = activeFilter]_vars

\* A redo moved the cursor of the selected workflow to its second entry, and
\* the filter is 'none'.
C19_Witness ==
  /\ last.op = "redo"
  /\ last.pre.historyIndex = 0
  /\ historyIndex[last.w] = 1
  /\ activeFilter = "none"
  /\ ~anyLoading

\* C20: when the mode is switched while a generation issued by workflow W
\* is in flight, the call is not aborted: on success its result is appended
\* to W's history, cut at W's cursor, and on failure its error is recorded
\* on W; the workflow selected at completion, when it is not W, is not
\* modified.
C20_ModeSwitchInFlight ==
  [][/\ (mode' # mode /\ last'.op # "start") =>
          /\ pending' = pending
          /\ isLoading' = isLoading
     /\ last'.op \in {"success", "failure"} =>
          /\ Len(pending) = 1
          /\ LET W == pending[1].w
                 o == OtherWorkflow(W)
             IN /\ last'.w = W
                /\ ~isLoading'[W]
                /\ last'.op = "success" =>
                     /\ Len(history'[W].items) = historyIndex[W] + 2
                     /\ SubSeq(history'[W].items, 1, historyIndex[W] + 1)
                          = SubSeq(history[W].items, 1, historyIndex[W] + 1)
                     /\ historyIndex'[W] = historyIndex[W] + 1
                /\ last'.op = "failure" => error'[W] # NoError
                /\ history'[o] = history[o]
                /\ historyIndex'[o] = historyIndex[o]
                /\ error'[o] = error[o]
                /\ isLoading'[o] = isLoading[o]
                /\ storage'[HistoryKey(o)] = storage[HistoryKey(o)]
                /\ storage'[IndexKey(o)] = storage[IndexKey(o)]]_vars

\* A try-on generation failed while the background changer was selected:
\* the message is on the try-on workflow.
C20_Witness ==
  /\ last.op = "failure"
  /\ last.w = "tryon"
  /\ mode = "background"
  /\ error["tryon"] = TryOnFailedMessage
  /\ error["background"] = NoError
  /\ ~isLoading["tryon"]

\* C21: every accepted generate eventually returns its workflow to Idle
\* (loading flag cleared), on success and on failure alike, provided the
\* client call eventually resolves or rejects; the workflow never remains
\* Generating after the call has settled (a set loading flag always has its
\* call in flight).
C21_GenerateReturnsToIdle ==
  /\ [](\A w \in Workflows : isLoading[w] => InFlight(w) # {})
  /\ \A w \in Workflows : isLoading[w] ~> ~isLoading[w]

\* A generate has just succeeded: nothing is in flight and its workflow is
\* idle again, its new entry stored.
C21_Witness ==
  /\ last.op = "success"
  /\ pending = << >>
  /\ ~isLoading[last.w]
  /\ historyIndex[last.w] = Len(history[last.w].items) - 1
  /\ last.pre.historyIndex = historyIndex[last.w] - 1

\* C22: no operation changes or removes an entry at an index up to the
\* current cursor: every step keeps entries[i] for all i in 0..cursor;
\* entries change only in a successful generate of their workflow, which
\* removes them only beyond the cursor, and undo and redo never change
\* entries at all.
C22_EntriesImmutable ==
  [][\A w \in Workflows :
       /\ Len(history'[w].items) >= historyIndex[w] + 1
       /\ \A i \in 1 .. historyIndex[w] + 1 : history'[w].items[i] = history[w].items[i]
       /\ history'[w] # history[w] => last'.op = "success" /\ last'.w = w
       /\ last'.op \in {"undo", "redo"} => history' = history]_vars

\* An undo moved the cursor from the second entry to the first: both
\* entries are still there, the second beyond the cursor.
C22_Witness ==
  /\ last.op = "undo"
  /\ last.pre.historyIndex = 1
  /\ historyIndex[last.w] = 0
  /\ Len(Entries(last.w)) = 2
  /\ history[last.w] = last.pre.history

\* C23: restarting the application at a quiescent point (no generation in
\* flight) rehydrates, for each workflow, exactly the entries and the cursor
\* that were in memory before the restart.
C23_RestartRoundTrip ==
  [][last'.op = "start" /\ pending = << >> =>
       /\ history' = history
       /\ historyIndex' = historyIndex
       /\ storage' = storage
       /\ ~crashed']_vars

\* The application started over a stored try-on history of two entries
\* with the cursor on the first, and holds that state again.
C23_Witness ==
  /\ last.op = "start"
  /\ last.found[IndexKey("tryon")] = <<"0">>
  /\ Len(Entries("tryon")) = 2
  /\ historyIndex["tryon"] = 0
  /\ JSONstringify(history["tryon"]) = last.found[HistoryKey("tryon")]

\* C24: when converting an uploaded file fails, the upload slot becomes
\* absent and nothing else changes: neither workflow's error message,
\* entries, cursor nor loading flag is modified (nor the other slots, the
\* storage, the calls in flight, the prompts, the filter or the mode).
C24_DecodeErrorClearsSlotOnly ==
  [][last'.op = "decodeError" =>
       /\ image'[last'.slot] = NoFile
       /\ \A s \in Slots \ {last'.slot} : image'[s] = image[s]
       /\ error' = error
       /\ history' = history
       /\ historyIndex' = historyIndex
       /\ isLoading' = isLoading
       /\ storage' = storage
       /\ pending' = pending
       /\ prompt' = prompt
       /\ activeFilter' = activeFilter
       /\ mode' = mode]_vars

\* A conversion failed while a try-on generation was in flight over a
\* history of one entry: the slot is empty, the generation goes on.
C24_Witness ==
  /\ last.op = "decodeError"
  /\ image[last.slot] = NoFile
  /\ isLoading["tryon"]
  /\ InFlight("tryon") # {}
  /\ historyIndex["tryon"] = 0

\* C25: in every reachable state of each workflow, the cursor is -1 if and
\* only if there are no entries; a history that is not empty always has a
\* current image (cursor >= 0), also right after rehydration.
C25_CursorMinusOneIffEmpty ==
  \A w \in Workflows :
    /\ historyIndex[w] = -1 <=> Stored(history[w]) = 0
    /\ Stored(history[w]) > 0 =>
         /\ JSGreaterEq(historyIndex[w], 0)
         /\ CurrentImage(w) # NoImage

\* A start over one stored entry and the stored cursor -1: the cursor is on
\* the entry.
C25_Witness ==
  /\ last.op = "start"
  /\ last.found[HistoryKey("tryon")] = JSONstringify(Arr(<<Entry1>>))
  /\ last.found[IndexKey("tryon")] = <<"-", "1">>
  /\ historyIndex["tryon"] = 0
  /\ CurrentImage("tryon") = Entry1

\* C26: at most one generation is in flight across both workflows together,
\* and while it is in flight no undo, redo or generate runs and no step
\* changes either history; so the entries and cursor captured when a
\* generate starts are those of its workflow when it completes, and a
\* successful result overwrites no change made in between.
C26_OneGenerationInFlight ==
  [][/\ Len(pending') <= 1
     /\ last'.op \in {"accept", "reject", "undo", "redo"} => pending = << >>
     /\ (pending # << >> /\ last'.op \notin {"success", "failure"}) =>
          /\ history' = history
          /\ historyIndex' = historyIndex
     /\ last'.op \in {"success", "failure"} =>
          /\ Len(pending) = 1
          /\ pending[1].history = history[pending[1].w]
          /\ pending[1].historyIndex = historyIndex[pending[1].w]]_vars

\* A background generation is in flight while the try-on mode is selected
\* with both images uploaded and an entry to undo: only the other
\* workflow's loading flag keeps Generate and Undo away.
C26_Witness ==
  /\ Len(pending) = 1
  /\ pending[1].w = "background"
  /\ isLoading["background"]
  /\ ~isLoading["tryon"]
  /\ mode = "tryon"
  /\ canUndo
  /\ image["model"] # NoFile
  /\ image["clothing"] # NoFile

\* C27: when two files are chosen for the same empty slot in succession and
\* both conversions are awaited, then once both have settled, in any order,
\* the slot holds the more recently chosen file (or is absent if that
\* file's conversion failed): when the last awaited conversion of a slot
\* settles, a conversion that no later choice followed leaves its own
\* result in the slot, and one that a later choice followed leaves the slot
\* with the later file's result it holds.
C27_LatestUploadWins ==
  [][\A k \in 1..Len(converting) :
       LET c == converting[k] IN
       (/\ last'.op \in {"converted", "decodeError"}
        /\ last'.slot = c.slot
        /\ converting' = SubSeq(converting, 1, k - 1) \o SubSeq(converting, k + 1, Len(converting))
        /\ Converting(c.slot) = {k})
       => IF c.later = NoUserFile
            THEN image'[c.slot] = Converted(c.file)
            ELSE image[c.slot] = Converted(c.later) => image'[c.slot] = Converted(c.later)]_vars

\* Two different pictures were chosen for the model slot one after the
\* other, and both conversions are awaited.
C27_Witness ==
  /\ Len(converting) = 2
  /\ converting[1].slot = "model"
  /\ converting[2].slot = "model"
  /\ converting[1].later = converting[2].file
  /\ Converted(converting[1].file) = "file"
  /\ Converted(converting[2].file) = "file2"
  /\ image["model"] = NoFile

\* C28: a backgroundPrompt is classified as empty identically everywhere it
\* is tested: a prompt that is empty or only white space is empty for the
\* controller's guard (its trim), for changeBackground's invalid-request
\* check, for the try-on background clause (the original background is
\* preserved, no user text) and for the second-image variant of the
\* background change (no user text as additional instructions); any other
\* prompt is not empty for any of them.
C28_BlankPromptIsEmptyEverywhere ==
  LET parts == last.call.parts IN
  /\ \A w \in Workflows : Trim(prompt[w]) = << >> <=> Blank(prompt[w])
  /\ last.op = "dressModel" =>
       (parts[3].embeds <=> ~Blank(prompt["tryon"]))
  /\ (last.op = "changeBackground" /\ image["background"] = NoFile) =>
       (parts = << >> <=> Blank(prompt["background"]))
  /\ (last.op = "changeBackground" /\ image["background"] # NoFile) =>
       /\ parts # << >>
       /\ parts[3].embeds <=> ~Blank(prompt["background"])

\* dressModel was called with a background prompt of one space: its text
\* asks to preserve the original background and carries no user text.
C28_Witness ==
  /\ last.op = "dressModel"
  /\ prompt["tryon"] = <<" ">>
  /\ ~last.call.parts[3].embeds
  /\ last.call.parts[3].userText = << >>

=============================================================================
